---- MODULE Spec2Model ----
(***************************************************************************)
(* Model of MyFinTechLib.py: load_csv_to_df, sharpe_ratio and beta.        *)
(*                                                                         *)
(* Numbers are exact.  A statistic is a "float": NaN, +/-Inf or a finite   *)
(* rational <<n, d>> (d > 0, lowest terms).  Values that pass through a    *)
(* square root (std, np.sqrt) are "surds": NaN, +/-Inf or s * sqrt(q) with *)
(* s in {-1, 0, 1} and q a non-negative rational.                          *)
(***************************************************************************)
EXTENDS Integers, Sequences, FiniteSets, TLC

VARIABLES fs, returns, risk_free_default, orig, call, ret, out

vars == <<fs, returns, risk_free_default, orig, call, ret, out>>

----------------------------------------------------------------------------
(* Bounds of the model *)

\* most rows of a table, a series or a CSV file
MaxRows == 3

\* the values a return observation takes (integer units)
ReturnVals == {-1, 0, 1}

\* the column names of return tables, in the orders a caller may pass them
ColumnOrders == { <<"AAPL">>, <<"AAPL", "MSFT">>, <<"MSFT", "AAPL">> }

----------------------------------------------------------------------------
(* Exact arithmetic *)

Abs(x) == IF x < 0 THEN -x ELSE x

Sign(x) == IF x < 0 THEN -1 ELSE IF x = 0 THEN 0 ELSE 1

RECURSIVE GCD(_, _)
GCD(a, b) == IF b = 0 THEN a ELSE GCD(b, a % b)

\* the rational n/d (d # 0) in lowest terms with a positive denominator
Rat(n, d) ==
    LET g == GCD(Abs(n), Abs(d))
        s == IF d < 0 THEN -1 ELSE 1
    IN  <<(s * n) \div g, (s * d) \div g>>

RSub(a, b) == Rat(a[1] * b[2] - b[1] * a[2], a[2] * b[2])
RMul(a, b) == Rat(a[1] * b[1], a[2] * b[2])
RDiv(a, b) == Rat(a[1] * b[2], a[2] * b[1])

NaN == [t |-> "nan"]
Inf(s) == [t |-> "inf", s |-> s]
Num(r) == [t |-> "num", v |-> r]
Surd(s, q) == [t |-> "surd", s |-> s, q |-> q]

IsNaN(x) == x.t = "nan"
IsInf(x) == x.t = "inf"

\* IEEE subtraction of two floats (finite operands are exact)
FSub(a, b) ==
    IF IsNaN(a) \/ IsNaN(b) THEN NaN
    ELSE IF IsInf(a) /\ IsInf(b) THEN (IF a.s = b.s THEN NaN ELSE a)
    ELSE IF IsInf(a) THEN a
    ELSE IF IsInf(b) THEN Inf(-b.s)
    ELSE Num(RSub(a.v, b.v))

\* IEEE product of a float and a positive integer
FScale(a, k) ==
    IF IsNaN(a) \/ IsInf(a) THEN a ELSE Num(RMul(a.v, <<k, 1>>))

\* IEEE division of two floats: x/0 is +/-Inf, 0/0 is NaN, never an error
FDiv(a, b) ==
    IF IsNaN(a) \/ IsNaN(b) THEN NaN
    ELSE IF IsInf(a) THEN (IF IsInf(b) THEN NaN
                           ELSE Inf(a.s * (IF b.v[1] < 0 THEN -1 ELSE 1)))
    ELSE IF IsInf(b) THEN Num(<<0, 1>>)
    ELSE IF b.v[1] = 0 THEN (IF a.v[1] = 0 THEN NaN ELSE Inf(Sign(a.v[1])))
    ELSE Num(RDiv(a.v, b.v))

\* a float as a surd: r = sign(r) * sqrt(r^2)
ToSurd(a) ==
    IF IsNaN(a) \/ IsInf(a) THEN a ELSE Surd(Sign(a.v[1]), RMul(a.v, a.v))

\* np.sqrt of a float that is not negative
FSqrt(a) ==
    IF IsNaN(a) \/ IsInf(a) THEN a ELSE Surd(Sign(a.v[1]), a.v)

\* IEEE product of two surds
SMul(a, b) ==
    IF IsNaN(a) \/ IsNaN(b) THEN NaN
    ELSE IF IsInf(a) \/ IsInf(b)
         THEN (IF a.s * b.s = 0 THEN NaN ELSE Inf(a.s * b.s))
    ELSE Surd(a.s * b.s, IF a.s * b.s = 0 THEN <<0, 1>> ELSE RMul(a.q, b.q))

\* a slip: a zero divisor is guarded and the quotient set to zero
SDivGuarded(a, b) ==
    IF IsNaN(a) \/ IsNaN(b) THEN NaN
    ELSE IF IsInf(a) THEN (IF IsInf(b) THEN NaN
                           ELSE Inf(a.s * (IF b.s < 0 THEN -1 ELSE 1)))
    ELSE IF IsInf(b) \/ b.s = 0 THEN Surd(0, <<0, 1>>)
    ELSE Surd(a.s * b.s, IF a.s = 0 THEN <<0, 1>> ELSE RDiv(a.q, b.q))

\* IEEE division of two surds
SDiv(a, b) ==
    IF IsNaN(a) \/ IsNaN(b) THEN NaN
    ELSE IF IsInf(a) THEN (IF IsInf(b) THEN NaN
                           ELSE Inf(a.s * (IF b.s < 0 THEN -1 ELSE 1)))
    ELSE IF IsInf(b) THEN Surd(0, <<0, 1>>)
    ELSE IF b.s = 0 THEN (IF a.s = 0 THEN NaN ELSE Inf(a.s))
    ELSE Surd(a.s * b.s, IF a.s = 0 THEN <<0, 1>> ELSE RDiv(a.q, b.q))

----------------------------------------------------------------------------
(* pandas statistics of a column of integer observations *)

RECURSIVE Sum(_)
Sum(xs) == IF xs = <<>> THEN 0 ELSE Head(xs) + Sum(Tail(xs))

Prod(xs, ys) == [i \in 1..Len(xs) |-> xs[i] * ys[i]]

\* Series.mean: NaN for an empty column
Mean(xs) == IF Len(xs) = 0 THEN NaN ELSE Num(Rat(Sum(xs), Len(xs)))

\* Series.cov (ddof = 1): NaN below two observations
Cov(xs, ys) ==
    LET n == Len(xs)
    IN  IF n < 2 THEN NaN
        ELSE Num(Rat(n * Sum(Prod(xs, ys)) - Sum(xs) * Sum(ys), n * (n - 1)))

\* a slip: the population variance (ddof = 0)
VarPopulation(xs) ==
    LET n == Len(xs)
    IN  IF n < 1 THEN NaN
        ELSE Num(Rat(n * Sum(Prod(xs, xs)) - Sum(xs) * Sum(xs), n * n))

\* Series.var (ddof = 1)
Var(xs) == Cov(xs, xs)

\* Series.std (ddof = 1)
Std(xs) == FSqrt(Var(xs))

----------------------------------------------------------------------------
(* Return values of a call *)

\* a returned object: its type ("DataFrame", "Series" or "float") and content
Value(type, v) == [kind |-> "value", type |-> type, v |-> v]
None == [kind |-> "none"]
Raise(e) == [kind |-> "raise", exc |-> e]

----------------------------------------------------------------------------
(* DataFrames and Series *)

\* a DataFrame: a date index, ordered column labels, one column of cells
\* per label
DataFrame(index, columns, col) ==
    [index |-> index, columns |-> columns, col |-> col]

\* a labelled Series (the result of a column-wise reduction)
Series(index, val) == [index |-> index, val |-> val]

Range(f) == {f[i] : i \in DOMAIN f}

\* lexicographic order of the labels the model uses
LabelOrder == <<"AAPL", "MSFT", "risk_free">>

SortLabels(S) == SelectSeq(LabelOrder, LAMBDA l : l \in S)

\* positions of seq whose element satisfies Keep, in order
SelectRows(xs, keep) ==
    LET F[i \in 0..Len(xs)] ==
            IF i = 0 THEN <<>>
            ELSE IF i \in keep THEN Append(F[i - 1], xs[i]) ELSE F[i - 1]
    IN  F[Len(xs)]

\* pd.concat([a, b], axis='columns', join='inner'): the rows whose date is
\* in both indexes, the columns of a followed by those of b
Concat(a, b) ==
    LET keepA == {i \in 1..Len(a.index) : a.index[i] \in Range(b.index)}
        keepB == {i \in 1..Len(b.index) : b.index[i] \in Range(a.index)}
    IN  DataFrame(SelectRows(a.index, keepA),
                  a.columns \o b.columns,
                  [l \in Range(a.columns) \cup Range(b.columns) |->
                      IF l \in Range(a.columns)
                      THEN SelectRows(a.col[l], keepA)
                      ELSE SelectRows(b.col[l], keepB)])

\* DataFrame.mean(): one float per column, labelled by the columns
FrameMean(df) ==
    Series(df.columns, [l \in Range(df.columns) |-> Mean(df.col[l])])

\* DataFrame.std(): one surd per column
FrameStd(df) ==
    Series(df.columns, [l \in Range(df.columns) |-> Std(df.col[l])])

\* the index of a binary operation on two Series: the left index when both
\* are equal, else the union of the labels in sorted order
AlignIndex(l, r) ==
    IF l = r THEN l ELSE SortLabels(Range(l) \cup Range(r))

\* Series / Series: label-aligned, NaN where either side lacks the label
SeriesDiv(a, b) ==
    LET idx == AlignIndex(a.index, b.index)
    IN  Series(idx,
               [l \in Range(idx) |->
                   IF l \in Range(a.index) /\ l \in Range(b.index)
                   THEN SDiv(ToSurd(a.val[l]), b.val[l])
                   ELSE NaN])

\* Series.drop(label, inplace=True)
SeriesDrop(s, label) ==
    Series(SelectSeq(s.index, LAMBDA l : l # label),
           [l \in Range(s.index) \ {label} |-> s.val[l]])

----------------------------------------------------------------------------
(* sharpe_ratio *)

TRADING_DAYS == 252

\* the risk_free argument: left out (the function's shared default list is
\* used) or a one-column DataFrame
Omitted == [kind |-> "omitted"]
Frame(df) == [kind |-> "frame", df |-> df]

\* the default risk-free table: a zero per row of data_set, on its index
ZeroRiskFree(data_set) ==
    DataFrame(data_set.index, <<"risk_free">>,
              [l \in {"risk_free"} |-> [i \in 1..Len(data_set.index) |-> 0]])

\* lines 63-67, once risk_free_rate is a DataFrame
SharpeOf(data_set, risk_free_rate, annualized) ==
    LET all_data == Concat(data_set, risk_free_rate)
        trading_days == IF annualized THEN TRADING_DAYS ELSE 1
        means == FrameMean(all_data)
        rf_mean == Mean(all_data.col["risk_free"])
        excess == Series(means.index,
                         [l \in Range(means.index) |->
                             FScale(FSub(means.val[l], rf_mean), trading_days)])
        stds == FrameStd(data_set)
        vol == Series(stds.index,
                      [l \in Range(stds.index) |->
                          SMul(stds.val[l], FSqrt(Num(<<trading_days, 1>>)))])
        sr == SeriesDiv(excess, vol)
    IN  SeriesDrop(sr, "risk_free")

\* a slip: the call records its use in the shared default list
sharpe_ratio_appends_default(data_set, risk_free, annualized, dflt) ==
    LET after(r) == [ret |-> r, data_set |-> data_set,
                     risk_free |-> risk_free, dflt |-> Append(dflt, 0)]
    IN  IF risk_free.kind = "frame"
        THEN after(Raise("ValueError"))
        ELSE IF dflt = <<>>
        THEN after(Value("Series",
                         SharpeOf(data_set, ZeroRiskFree(data_set), annualized)))
        ELSE after(Raise("TypeError"))

\* sharpe_ratio(data_set, risk_free, annualized) with the default list
\* holding dflt: the value returned or the exception raised, and the
\* argument objects as the call leaves them
sharpe_ratio(data_set, risk_free, annualized, dflt) ==
    LET after(r) == [ret |-> r, data_set |-> data_set,
                     risk_free |-> risk_free, dflt |-> dflt]
    IN  IF risk_free.kind = "frame"
        THEN \* "not risk_free" on a DataFrame: its truth value is ambiguous
             after(Raise("ValueError"))
        ELSE IF dflt = <<>>
        THEN after(Value("Series",
                         SharpeOf(data_set, ZeroRiskFree(data_set), annualized)))
        ELSE \* pd.concat of a DataFrame and a list
             after(Raise("TypeError"))

----------------------------------------------------------------------------
(* beta *)

\* a slip: the first full window is still reported unavailable
RollingCovOffByOne(xs, ys, window) ==
    [i \in 1..Len(xs) |->
        IF i <= window THEN NaN
        ELSE Cov(SubSeq(xs, i - window + 1, i), SubSeq(ys, i - window + 1, i))]

\* Series.rolling(window).cov(other): NaN until a full window is available,
\* then the covariance (ddof = 1) of the trailing window
RollingCov(xs, ys, window) ==
    [i \in 1..Len(xs) |->
        IF i < window THEN NaN
        ELSE Cov(SubSeq(xs, i - window + 1, i), SubSeq(ys, i - window + 1, i))]

\* Series.rolling(window).var()
RollingVar(xs, window) == RollingCov(xs, xs, window)

\* a slip: a window of zero enters rolling mode
beta_rolls_from_zero(data1, data2, roll_win) ==
    IF roll_win >= 0
    THEN [ret |-> Value("Series", [i \in 1..Len(data1) |->
                      FDiv(RollingCov(data1, data2, roll_win)[i],
                           RollingVar(data2, roll_win)[i])]),
          data1 |-> data1, data2 |-> data2]
    ELSE [ret |-> Value("float", FDiv(Cov(data1, data2), Var(data2))),
          data1 |-> data1, data2 |-> data2]

\* beta(data1, data2, roll_win): the value returned, and the argument
\* objects as the call leaves them
beta(data1, data2, roll_win) ==
    IF roll_win > 0
    THEN LET variance == RollingVar(data2, roll_win)
             covariance == RollingCov(data1, data2, roll_win)
         IN  [ret |-> Value("Series", [i \in 1..Len(data1) |->
                                          FDiv(covariance[i], variance[i])]),
              data1 |-> data1, data2 |-> data2]
    ELSE LET variance == Var(data2)
             covariance == Cov(data1, data2)
         IN  [ret |-> Value("float", FDiv(covariance, variance)),
              data1 |-> data1, data2 |-> data2]

----------------------------------------------------------------------------
(* load_csv_to_df *)

\* no file at the path
NoFile == [kind |-> "missing"]

\* a CSV file: its header and its data rows, each a tuple of text fields
CsvFile(header, rows) == [kind |-> "file", header |-> header, rows |-> rows]

\* the texts read_csv takes for a missing value
NaValues == {"", "NA"}

\* the number a numeric field's text denotes
NumberOf(text) == CASE text = "7" -> 7 [] text = "9" -> 9

\* a numeric field as read_csv parses it
ParseField(text) ==
    IF text \in NaValues THEN NaN ELSE Num(<<NumberOf(text), 1>>)

NaT == [t |-> "nat"]

\* a Date field as parse_dates parses it
ParseDate(text) ==
    IF text \in NaValues THEN NaT
    ELSE CASE text = "2020-01-02" -> [t |-> "date", y |-> 2020, m |-> 1, d |-> 2]

\* position of label in header, 0 when absent
RECURSIVE IndexOf(_, _)
IndexOf(header, label) ==
    IF header = <<>> THEN 0
    ELSE IF Head(header) = label THEN 1
    ELSE LET k == IndexOf(Tail(header), label)
         IN  IF k = 0 THEN 0 ELSE k + 1

\* pd.read_csv(file, index_col='Date', parse_dates=True) of an existing file
\* with a Date column: Date becomes the index, the others the columns
read_csv(file) ==
    LET d == IndexOf(file.header, "Date")
        columns == SelectSeq(file.header, LAMBDA l : l # "Date")
    IN  DataFrame([i \in 1..Len(file.rows) |-> ParseDate(file.rows[i][d])],
                  columns,
                  [l \in Range(columns) |->
                      [i \in 1..Len(file.rows) |->
                          ParseField(file.rows[i][IndexOf(file.header, l)])]])

\* df.isna().sum(): the count of missing cells of each column
NullCounts(df) ==
    [l \in Range(df.columns) |->
        Cardinality({i \in 1..Len(df.index) : IsNaN(df.col[l][i])})]

\* df.dropna(): the rows with no missing cell in any column
dropna(df) ==
    LET keep == {i \in 1..Len(df.index) :
                    \A l \in Range(df.columns) : ~IsNaN(df.col[l][i])}
    IN  DataFrame(SelectRows(df.index, keep), df.columns,
                  [l \in Range(df.columns) |-> SelectRows(df.col[l], keep)])

\* a slip: the missing-value report is taken after the rows are dropped
LoadExistingDropFirst(file, report_nulls, drop_nulls) ==
    IF IndexOf(file.header, "Date") = 0
    THEN [ret |-> Raise("ValueError"), out |-> <<>>]
    ELSE LET parsed == read_csv(file)
             df_obj == IF drop_nulls THEN dropna(parsed) ELSE parsed
             drop == IF drop_nulls THEN <<[ev |-> "removed"]>> ELSE <<>>
             report == IF report_nulls
                       THEN <<[ev |-> "nulls", counts |-> NullCounts(df_obj)]>>
                       ELSE <<>>
         IN  [ret |-> Value("DataFrame", df_obj), out |-> drop \o report]

\* lines 29-36, the file exists: the value returned or the exception
\* raised, and what is printed, in order
LoadExisting(file, report_nulls, drop_nulls) ==
    IF IndexOf(file.header, "Date") = 0
    THEN \* read_csv raises ValueError for index_col, not caught
         [ret |-> Raise("ValueError"), out |-> <<>>]
    ELSE LET df_obj == read_csv(file)
             report == IF report_nulls
                       THEN <<[ev |-> "nulls", counts |-> NullCounts(df_obj)]>>
                       ELSE <<>>
             drop == IF drop_nulls THEN <<[ev |-> "removed"]>> ELSE <<>>
         IN  [ret |-> Value("DataFrame",
                            IF drop_nulls THEN dropna(df_obj) ELSE df_obj),
              out |-> report \o drop]

\* a slip: no except clause, FileNotFoundError leaves the call
load_csv_to_df_uncaught(path, file, report_nulls, drop_nulls) ==
    IF file.kind = "missing"
    THEN [ret |-> Raise("FileNotFoundError"), out |-> <<>>]
    ELSE LoadExisting(file, report_nulls, drop_nulls)

\* load_csv_to_df(path, report_nulls, drop_nulls) where file is what the
\* path names
load_csv_to_df(path, file, report_nulls, drop_nulls) ==
    IF file.kind = "missing"
    THEN \* read_csv raises FileNotFoundError, caught at line 37: the
         \* message is printed and the function falls off its end
         [ret |-> None, out |-> <<[ev |-> "not found", path |-> path]>>]
    ELSE LoadExisting(file, report_nulls, drop_nulls)

----------------------------------------------------------------------------
(* The inputs a caller may hold *)

\* the one path that may name a file, and the paths a load may name
CsvPath == "prices.csv"

Paths == {CsvPath, "absent.csv"}

Headers == { <<"Date", "Close", "Volume">>, <<"Day", "Close", "Volume">> }

\* a data row: a date (or nothing), a Close (or nothing), a Volume (or NA)
CsvRows == { <<d, c, v>> : d \in {"", "2020-01-02"},
                           c \in {"", "7"}, v \in {"NA", "9"} }

CsvFiles ==
    { CsvFile(h, rows) :
        h \in Headers, rows \in UNION { [1..n -> CsvRows] : n \in 0..MaxRows } }

\* return tables on the dates 1..n
ReturnTables ==
    UNION { { DataFrame([i \in 1..n |-> i], columns, col) :
                col \in [Range(columns) -> [1..n -> ReturnVals]] } :
            columns \in ColumnOrders, n \in 1..MaxRows }

\* one-column risk-free tables a caller may pass: one on the first date
\* only, one on every date
RiskFreeFrames ==
    { DataFrame([i \in 1..n |-> i], <<"risk_free">>,
                [l \in {"risk_free"} |-> [i \in 1..n |-> 1]]) :
        n \in {1, MaxRows} }

\* the return table of a session that starts from a CSV file
SampleReturns ==
    DataFrame(<<1, 2>>, <<"AAPL">>, [l \in {"AAPL"} |-> <<1, -1>>])

----------------------------------------------------------------------------
(* The state machine: a caller holds a file system and a return table and
   calls the three functions *)

NoCall == [op |-> "none"]

\* a caller about to work on a return table
Init ==
    /\ fs = NoFile
    /\ returns \in ReturnTables
    /\ risk_free_default = <<>>
    /\ orig = returns
    /\ call = NoCall
    /\ ret = None
    /\ out = <<>>

\* what a path names: fs at CsvPath, nothing anywhere else
FileAt(path) == IF path = CsvPath THEN fs ELSE NoFile

LoadCsv ==
    \E path \in Paths, report_nulls \in BOOLEAN, drop_nulls \in BOOLEAN :
        LET r == load_csv_to_df(path, FileAt(path), report_nulls, drop_nulls)
        IN  /\ call' = [op |-> "load_csv_to_df", path |-> path,
                        report_nulls |-> report_nulls,
                        drop_nulls |-> drop_nulls]
            /\ ret' = r.ret
            /\ out' = r.out
            /\ UNCHANGED <<fs, returns, risk_free_default, orig>>

SharpeRatio ==
    \E risk_free \in {Omitted} \cup {Frame(f) : f \in RiskFreeFrames},
       annualized \in BOOLEAN :
        LET r == sharpe_ratio(returns, risk_free, annualized, risk_free_default)
        IN  /\ call' = [op |-> "sharpe_ratio", data_set |-> returns,
                        risk_free |-> risk_free, annualized |-> annualized,
                        risk_free_after |-> r.risk_free]
            /\ ret' = r.ret
            /\ out' = <<>>
            /\ returns' = r.data_set
            /\ risk_free_default' = r.dflt
            /\ UNCHANGED <<fs, orig>>

Beta ==
    \E c1 \in Range(returns.columns), c2 \in Range(returns.columns),
       roll_win \in -1..(Len(returns.index) + 1) :
        LET r == beta(returns.col[c1], returns.col[c2], roll_win)
        IN  /\ call' = [op |-> "beta", data1 |-> returns.col[c1],
                        data2 |-> returns.col[c2], roll_win |-> roll_win]
            /\ ret' = r.ret
            /\ out' = <<>>
            /\ returns' = [returns EXCEPT !.col =
                              [l \in DOMAIN returns.col |->
                                  IF l = c2 THEN r.data2
                                  ELSE IF l = c1 THEN r.data1
                                  ELSE returns.col[l]]]
            /\ UNCHANGED <<fs, risk_free_default, orig>>

\* one call on inputs drawn by Init: every function is a single-shot
\* computation over its inputs
Once(A) == call = NoCall /\ A

Next == Once(SharpeRatio) \/ Once(Beta)

Spec == Init /\ [][Next]_vars

\* a caller about to load a path
InitLoad ==
    /\ fs \in CsvFiles \cup {NoFile}
    /\ returns = SampleReturns
    /\ risk_free_default = <<>>
    /\ orig = returns
    /\ call = NoCall
    /\ ret = None
    /\ out = <<>>

NextLoad == Once(LoadCsv)

SpecLoad == InitLoad /\ [][NextLoad]_vars

\* most rows of the return table of a session of several calls
MaxSessionRows == 2

\* the column names of the return table of a session
SessionColumnOrders == { <<"AAPL">>, <<"AAPL", "MSFT">> }

InitSession ==
    /\ fs = NoFile
    /\ returns \in {t \in ReturnTables : /\ Len(t.index) <= MaxSessionRows
                                         /\ t.columns \in SessionColumnOrders}
    /\ risk_free_default = <<>>
    /\ orig = returns
    /\ call = NoCall
    /\ ret = None
    /\ out = <<>>

\* any sequence of calls to sharpe_ratio and beta on the same objects
NextSession == SharpeRatio \/ Beta

SpecSession == InitSession /\ [][NextSession]_vars

----------------------------------------------------------------------------
(* Claims about load_csv_to_df *)

Loaded == call.op = "load_csv_to_df"

HasDate(file) == file.kind = "file" /\ IndexOf(file.header, "Date") # 0

\* the data rows of file with a missing value in some field, Date included
RowsWithMissing(file) ==
    {i \in 1..Len(file.rows) :
        \E k \in 1..Len(file.header) : file.rows[i][k] \in NaValues}

\* the missing cells of a table's columns
MissingCells(df) ==
    {<<l, i>> \in Range(df.columns) \X (1..Len(df.index)) : IsNaN(df.col[l][i])}

\* the file the last load named
Named == FileAt(call.path)

\* C1: for a path that names no file, whatever report_nulls and drop_nulls
\* are, load_csv_to_df returns None, reports "file not found" and raises
\* nothing
C1_MissingFileIsReported ==
    (Loaded /\ Named = NoFile) =>
        /\ ret = None
        /\ ret.kind # "raise"
        /\ out = <<[ev |-> "not found", path |-> call.path]>>

C1_Witness ==
    /\ Loaded /\ Named = NoFile /\ fs # NoFile
    /\ call.report_nulls /\ ~call.drop_nulls
    /\ ret = None /\ Len(out) = 1

\* C2: for an existing CSV file with a Date column and drop_nulls enabled,
\* the returned table has no missing value and as many rows as the file
\* has data rows less the rows with at least one missing value, a row
\* whose only missing value is its Date included
C2_DropRemovesEveryRowWithMissing ==
    (Loaded /\ HasDate(Named) /\ call.drop_nulls) =>
        /\ ret.kind = "value"
        /\ MissingCells(ret.v) = {}
        /\ Len(ret.v.index) = Len(Named.rows) - Cardinality(RowsWithMissing(Named))

\* C3: with report_nulls the counts reported are those of the table as
\* parsed and the report precedes the drop; the counts do not depend on
\* drop_nulls and the returned table does not depend on report_nulls
C3_ReportPrecedesDrop ==
    (Loaded /\ HasDate(Named)) =>
        LET otherDrop == load_csv_to_df(call.path, Named, call.report_nulls,
                                        ~call.drop_nulls)
            otherReport == load_csv_to_df(call.path, Named, ~call.report_nulls,
                                          call.drop_nulls)
        IN  /\ call.report_nulls =>
                /\ Len(out) >= 1
                /\ out[1] = [ev |-> "nulls", counts |-> NullCounts(read_csv(Named))]
                /\ \A i \in 1..Len(out) : out[i].ev = "removed" => i > 1
                /\ otherDrop.out[1] = out[1]
            /\ ~call.report_nulls => \A i \in 1..Len(out) : out[i].ev # "nulls"
            /\ otherReport.ret = ret

C3_Witness ==
    /\ Loaded /\ HasDate(Named)
    /\ call.report_nulls /\ call.drop_nulls
    /\ Len(out) = 2 /\ out[1].ev = "nulls" /\ out[2].ev = "removed"
    /\ \E l \in DOMAIN out[1].counts : out[1].counts[l] > 0
    /\ Len(ret.v.index) < Len(Named.rows)

----------------------------------------------------------------------------
(* Claims about sharpe_ratio *)

Sharped == call.op = "sharpe_ratio"

\* the risk-free table the claims speak of: the one passed, or zeros on the
\* dates of the return table
ClaimedRiskFree(data_set, risk_free) ==
    IF risk_free.kind = "frame" THEN risk_free.df ELSE ZeroRiskFree(data_set)

\* (mean(column) - mean(risk-free)) * scale / (stddev(column) * sqrt(scale))
\* over the dates present in both inputs
ClaimedSharpe(data_set, risk_free, annualized, c) ==
    LET joined == Concat(data_set, ClaimedRiskFree(data_set, risk_free))
        scale == IF annualized THEN 252 ELSE 1
    IN  SDiv(ToSurd(FScale(FSub(Mean(joined.col[c]),
                                Mean(joined.col["risk_free"])), scale)),
             SMul(Std(joined.col[c]), FSqrt(Num(<<scale, 1>>))))

\* C4: for every return table and every risk-free series, sharpe_ratio
\* returns for each column the ratio above, every statistic taken over the
\* inner join of the two inputs
C4_SharpeIsTheJoinedRatio ==
    Sharped =>
        /\ ret.kind = "value"
        /\ \A c \in Range(call.data_set.columns) :
               ret.v.val[c] = ClaimedSharpe(call.data_set, call.risk_free,
                                            call.annualized, c)

\* C5: the result has exactly one entry per column of the return table, in
\* the order of the input columns, and none for the risk-free column,
\* whatever the column names and their order
C5_EntriesInColumnOrder ==
    (Sharped /\ ret.kind = "value") => ret.v.index = call.data_set.columns

\* the table holding column c of df alone
OnlyColumn(df, c) == DataFrame(df.index, <<c>>, [l \in {c} |-> df.col[c]])

ZeroStd(xs) == Std(xs) = Surd(0, <<0, 1>>)

\* C8: with risk-free absent and a column of zero standard deviation the
\* call completes; that column's entry is infinite when its mean is not
\* zero and not-a-number when it is, and the other entries are what they
\* are without that column
C8_ZeroVolatilityIsUnguarded ==
    (/\ Sharped /\ call.risk_free = Omitted
     /\ \E c \in Range(call.data_set.columns) : ZeroStd(call.data_set.col[c])) =>
        /\ ret.kind = "value"
        /\ \A c \in Range(call.data_set.columns) :
             IF ZeroStd(call.data_set.col[c])
             THEN IF Mean(call.data_set.col[c]) = Num(<<0, 1>>)
                  THEN IsNaN(ret.v.val[c])
                  ELSE IsInf(ret.v.val[c])
             ELSE ret.v.val[c] =
                     sharpe_ratio(OnlyColumn(call.data_set, c), Omitted,
                                  call.annualized, <<>>).ret.v.val[c]

C8_Witness ==
    /\ Sharped /\ call.risk_free = Omitted /\ ret.kind = "value"
    /\ Len(call.data_set.columns) = 2
    /\ \E c \in Range(call.data_set.columns), d \in Range(call.data_set.columns) :
         /\ ZeroStd(call.data_set.col[c]) /\ IsInf(ret.v.val[c])
         /\ ~ZeroStd(call.data_set.col[d]) /\ ret.v.val[d].t = "surd"

----------------------------------------------------------------------------
(* Claims about beta *)

Betaed == call.op = "beta"

\* a rolling call whose window fits the series
RollingWithin == Betaed /\ 1 <= call.roll_win /\ call.roll_win <= Len(call.data1)

\* the positions of a rolling result that hold a value
Available(xs) == {i \in 1..Len(xs) : ~IsNaN(xs[i])}

Constant(xs) == \A i \in 1..Len(xs), j \in 1..Len(xs) : xs[i] = xs[j]

\* C6: for series of length N and a window W with 1 <= W <= N the result
\* has length N, its first W-1 positions are unavailable and each of the
\* N-W+1 positions from W-1 to N-1 holds a computed value; nothing is raised
C6_RollingHasEveryFullWindow ==
    RollingWithin =>
        /\ ret.kind = "value" /\ ret.type = "Series"
        /\ Len(ret.v) = Len(call.data1)
        /\ Available(ret.v) = call.roll_win..Len(call.data1)
        /\ Cardinality(Available(ret.v)) = Len(call.data1) - call.roll_win + 1

\* C6 as amended: the result has length N, its first W-1 positions are
\* unavailable and nothing is raised; a position from W-1 to N-1 holds a
\* computed value exactly when W >= 2 and data2 is not constant over the
\* window that ends there, so at most N-W+1 values are available
C6_RollingHasEveryVaryingWindow ==
    RollingWithin =>
        /\ ret.kind = "value" /\ ret.type = "Series"
        /\ Len(ret.v) = Len(call.data1)
        /\ Available(ret.v) =
              {i \in call.roll_win..Len(call.data1) :
                  /\ call.roll_win >= 2
                  /\ ~Constant(SubSeq(call.data2, i - call.roll_win + 1, i))}
        /\ \A i \in Available(ret.v) : ret.v[i].t = "num"
        /\ Cardinality(Available(ret.v)) <= Len(call.data1) - call.roll_win + 1

C6_Witness ==
    /\ RollingWithin /\ call.roll_win = 2 /\ Len(call.data1) = 3
    /\ call.data1 # call.data2
    /\ IsNaN(ret.v[1]) /\ Available(ret.v) = {2, 3}

\* C7: for every return series s, beta(s, s) with no rolling window is 1
C7_BetaOfSelfIsOne ==
    (Betaed /\ call.roll_win = 0 /\ call.data1 = call.data2) =>
        ret = Value("float", Num(<<1, 1>>))

\* C7 as amended: beta(s, s) with no rolling window is 1 for every series s
\* of at least two observations that are not all equal, and not-a-number
\* for any other series
C7_BetaOfVaryingSelfIsOne ==
    (Betaed /\ call.roll_win = 0 /\ call.data1 = call.data2) =>
        ret = Value("float",
                    IF Len(call.data1) >= 2 /\ ~Constant(call.data1)
                    THEN Num(<<1, 1>>) ELSE NaN)

C7_Witness ==
    /\ Betaed /\ call.roll_win = 0 /\ call.data1 = call.data2
    /\ Len(call.data1) = 3 /\ ~Constant(call.data1)
    /\ ret = Value("float", Num(<<1, 1>>))

\* C9: for a window w <= 0 beta returns the one scalar whole-sample
\* covariance(data1, data2) / variance(data2), the same for a negative w as
\* for w = 0; the result is a rolling series if and only if w > 0
C9_NonPositiveWindowIsWholeSample ==
    Betaed =>
        /\ ret.kind = "value"
        /\ ret.type = "Series" <=> call.roll_win > 0
        /\ call.roll_win <= 0 =>
              LET atZero == beta(call.data1, call.data2, 0).ret
              IN  /\ ret.type = "float"
                  /\ ret.v = FDiv(Cov(call.data1, call.data2), Var(call.data2))
                  /\ atZero.type = "float" /\ ret.v = atZero.v

C9_Witness ==
    /\ Betaed /\ call.roll_win < 0 /\ call.data1 # call.data2
    /\ ret.type = "float" /\ ret.v.t = "num" /\ ret.v.v # <<1, 1>>

----------------------------------------------------------------------------
(* Claims about sequences of calls *)

\* C10: after any sequence of calls to sharpe_ratio and beta the tables and
\* series passed are as they were and the shared default of risk_free is
\* still empty, so a call of sharpe_ratio without risk_free returns what it
\* returns on the same table as a first call
C10_CallsLeaveInputsAndDefault ==
    /\ returns = orig
    /\ risk_free_default = <<>>
    /\ Sharped => call.risk_free_after = call.risk_free
    /\ (Sharped /\ call.risk_free = Omitted) =>
          ret = sharpe_ratio(orig, Omitted, call.annualized, <<>>).ret

C10_Witness ==
    /\ Sharped /\ call.risk_free = Omitted /\ call.data_set = orig
    /\ ret.kind = "value" /\ Len(ret.v.index) = 2
    /\ \E c \in Range(ret.v.index) : ret.v.val[c].t = "surd"

====
